---- MODULE Spec2Model ----
(***************************************************************************)
(* Batch frame reconstruction driver (scripts/parallel_v2.py, with the     *)
(* hard-coded variant scripts/parallel_aat.py sharing the same loop).      *)
(* The main process clears the staging directories, rebuilds frame 0 as    *)
(* the reference, then runs the batch loop: submit one process_frame task  *)
(* per frame index of the batch to a ProcessPoolExecutor, collect the      *)
(* results with as_completed, load the starting trajectory, append the     *)
(* collected frames in index order and save the segment file.              *)
(*                                                                         *)
(* A frame is identified by its index: the coarse frame t[i] and the       *)
(* all-atom structure rebuilt from it are both written i.  A trajectory is *)
(* a sequence of frame indices.  A staging directory is the set of frame   *)
(* indices whose file it holds.                                            *)
(***************************************************************************)
EXTENDS Integers, Sequences, FiniteSets, TLC

\* ---- bounds of the explored inputs ----
MaxFrames == 7
MaxBatchSize == 6
MaxCpu == 5

\* ---- program constant: the hard cap on pool workers ----
WorkerCap == 4

VARIABLES
    t_length,          \* t.n_frames
    batch_size,        \* batch_size
    cpu_count,         \* multiprocessing.cpu_count()
    max_workers,       \* max_workers
    total_batches,     \* total_batches
    pc,                \* position of the main process
    frames,            \* frames/frame{i}_proc.pdb present
    outputs,           \* outputs/out{i}_proc.pdb present
    unreadable,        \* output files md.load cannot parse
    t_new,             \* reference trajectory
    batch,             \* loop variable of the batch loop
    start_frame,
    end_frame,
    frame_data,        \* frame indices prepared for the current batch
    tasks,             \* state of every future submitted so far, by index
    processed_frames,  \* dict frame index -> structure, in insertion order
    batch_traj,        \* trajectory being assembled
    asm_i,             \* loop variable of the assembly loop
    segments,          \* segment files on disk: file name -> trajectory
    written,           \* names passed to save_dcd, in order
    submitted,         \* frame indices passed to executor.submit, in order
    warnings           \* "Warning: Missing frame" lines printed

vars == <<t_length, batch_size, cpu_count, max_workers, total_batches, pc,
          frames, outputs, unreadable, t_new, batch, start_frame, end_frame,
          frame_data, tasks, processed_frames, batch_traj, asm_i, segments,
          written, submitted, warnings>>

\* ---- arithmetic helpers ----
Min(a, b) == IF a <= b THEN a ELSE b

\* range(lo, hi) as a sequence: lo, lo+1, ..., hi-1
Range(lo, hi) == [k \in 1..(IF hi > lo THEN hi - lo ELSE 0) |-> lo + k - 1]

SeqToSet(s) == {s[k] : k \in 1..Len(s)}

\* ---- ordered dict (processed_frames) ----
DictKeys(d) == {d[k][1] : k \in 1..Len(d)}

DictGet(d, key) == (CHOOSE k \in 1..Len(d) : d[k][1] = key)

DictValue(d, key) == d[DictGet(d, key)][2]

DictSet(d, key, val) ==
    IF key \in DictKeys(d)
    THEN [d EXCEPT ![DictGet(d, key)] = <<key, val>>]
    ELSE Append(d, <<key, val>>)

\* ---- file names ----
RECURSIVE Digits(_)
Digits(n) == IF n < 10 THEN <<n>> ELSE Digits(n \div 10) \o <<n % 10>>

\* the name without the batch's range
BatchFilenameNoRange(s, e) == <<"rebuilt_", "input_base", ".dcd">>

\* f'rebuilt_{input_base}_{start}_{end}.dcd'
BatchFilename(s, e) ==
    <<"rebuilt_", "input_base", "_">> \o Digits(s) \o <<"_">> \o Digits(e)
        \o <<".dcd">>

\* ---- scheduler arithmetic ----
MaxWorkersNoCap(cpus) == cpus

\* one cpu left free for the main process
MaxWorkersLeaveOneFree(cpus) == Min(cpus - 1, WorkerCap)

MaxWorkers(cpus) == Min(cpus, WorkerCap)

TotalBatches(n, b) == (n + b - 1) \div b

\* every batch starting over at frame 1
StartFrameFromOne(k, b) == 1

\* the batch offset without the + 1 that skips the reference frame
StartFrameFromZero(k, b) == k * b

StartFrame(k, b) == k * b + 1

EndFrame(k, b, n) == Min((k + 1) * b, n)

PrevStartNoOffset(k, b) == (k - 1) * b

PrevStart(k, b) == (k - 1) * b + 1

PrevEnd(k, b, n) == Min(k * b, n)

PrevBatchFile(k, b, n) == BatchFilename(PrevStart(k, b), PrevEnd(k, b, n))

\* f'frames/frame{frame_idx}_proc.pdb'
FrameFilename(j) == <<"frames/frame">> \o Digits(j) \o <<"_proc.pdb">>

\* f'outputs/out{frame_idx}_proc.pdb'
OutputFilename(j) == <<"outputs/out">> \o Digits(j) \o <<"_proc.pdb">>

\* ---- the external tool ----

\* what a cgback invocation that returns leaves behind: a loadable output
\* file, no output file, or an output file md.load cannot parse
Outcomes == {"ok", "none", "unreadable"}

\* ---- worker pool ----
Executing == {"running"}
Live == {"pending", "running"}
Finished == {"done", "failed"}

NumExecuting(ts) == Cardinality({j \in DOMAIN ts : ts[j] \in Executing})

Init ==
    /\ t_length \in 1..MaxFrames
    /\ batch_size \in 1..MaxBatchSize
    /\ cpu_count \in 1..MaxCpu
    /\ max_workers = 0
    /\ total_batches = 0
    /\ pc = "start"
    /\ frames \in SUBSET {0, 1}
    /\ outputs \in SUBSET {0, 1}
    /\ unreadable \in SUBSET outputs
    /\ t_new = <<>>
    /\ batch = 0
    /\ start_frame = 0
    /\ end_frame = 0
    /\ frame_data = <<>>
    /\ tasks = <<>>
    /\ processed_frames = <<>>
    /\ batch_traj = <<>>
    /\ asm_i = 0
    /\ segments = <<>>
    /\ written = <<>>
    /\ submitted = <<>>
    /\ warnings = <<>>

\* lines 68-72: remove every file of frames/ and outputs/
ClearStaging ==
    /\ pc = "start"
    /\ frames' = {}
    /\ outputs' = {}
    /\ unreadable' = {}
    /\ pc' = "ref_save"
    /\ UNCHANGED <<t_length, batch_size, cpu_count, max_workers,
                   total_batches, t_new, batch, start_frame, end_frame,
                   frame_data, tasks, processed_frames, batch_traj, asm_i,
                   segments, written, submitted, warnings>>

\* line 75: t[0].save_pdb('frames/frame0_proc.pdb')
SaveReference ==
    /\ pc = "ref_save"
    /\ frames' = frames \cup {0}
    /\ pc' = "ref_run"
    /\ UNCHANGED <<unreadable, t_length, batch_size, cpu_count, max_workers,
                   total_batches, outputs, t_new, batch, start_frame,
                   end_frame, frame_data, tasks, processed_frames,
                   batch_traj, asm_i, segments, written, submitted, warnings>>

\* lines 78-85: cgback on frame 0; the return code is not checked, the
\* tool wrote a loadable outputs/out0_proc.pdb, no file, or a file md.load
\* cannot parse
RunReferenceOut(out) ==
    /\ pc = "ref_run"
    /\ outputs' = IF out = "none" THEN outputs ELSE outputs \cup {0}
    /\ unreadable' = IF out = "unreadable" THEN unreadable \cup {0}
                     ELSE unreadable
    /\ pc' = "ref_load"
    /\ UNCHANGED <<t_length, batch_size, cpu_count, max_workers,
                   total_batches, frames, t_new, batch, start_frame,
                   end_frame, frame_data, tasks, processed_frames,
                   batch_traj, asm_i, segments, written, submitted, warnings>>

RunReference == \E out \in Outcomes : RunReferenceOut(out)

\* lines 88-99: load the reference, then max_workers and total_batches;
\* md.load raises when the file is missing or cannot be parsed
LoadReference ==
    /\ pc = "ref_load"
    /\ IF 0 \in outputs /\ 0 \notin unreadable
       THEN /\ t_new' = <<0>>
            /\ max_workers' = MaxWorkers(cpu_count)
            /\ total_batches' = TotalBatches(t_length, batch_size)
            /\ pc' = "batch_loop"
       ELSE /\ pc' = "aborted"
            /\ UNCHANGED <<t_new, max_workers, total_batches>>
    /\ UNCHANGED <<unreadable, t_length, batch_size, cpu_count, frames,
                   outputs, batch, start_frame, end_frame, frame_data, tasks,
                   processed_frames, batch_traj, asm_i, segments, written,
                   submitted, warnings>>

\* ---- batch loop ----

\* lines 101-112: next iteration of the batch loop: the batch's range, its
\* frame_data, an empty results dict, and one submitted future per entry
StartBatch ==
    /\ pc = "batch_loop"
    /\ batch < total_batches
    /\ start_frame' = StartFrame(batch, batch_size)
    /\ end_frame' = EndFrame(batch, batch_size, t_length)
    /\ frame_data' = Range(start_frame', end_frame')
    /\ processed_frames' = <<>>
    /\ tasks' = [j \in DOMAIN tasks \cup SeqToSet(frame_data') |->
                    IF j \in SeqToSet(frame_data') THEN "pending" ELSE tasks[j]]
    /\ submitted' = submitted \o frame_data'
    /\ pc' = "collect"
    /\ UNCHANGED <<unreadable, t_length, batch_size, cpu_count, max_workers,
                   total_batches, frames, outputs, t_new, batch, batch_traj,
                   asm_i, segments, written, warnings>>

\* line 101 exhausted, lines 152-157
Finish ==
    /\ pc = "batch_loop"
    /\ batch >= total_batches
    /\ pc' = "done"
    /\ UNCHANGED <<unreadable, t_length, batch_size, cpu_count, max_workers,
                   total_batches, frames, outputs, t_new, batch, start_frame,
                   end_frame, frame_data, tasks, processed_frames,
                   batch_traj, asm_i, segments, written, submitted, warnings>>

\* ---- process_frame, run by a pool worker ----

\* lines 22-28 and the launch of line 39: a free worker takes the next
\* pending task (the pool's call queue is first in, first out), writes the
\* input structure file and starts cgback
StartTask(j) ==
    /\ j \in DOMAIN tasks
    /\ tasks[j] = "pending"
    /\ \A k \in DOMAIN tasks : tasks[k] = "pending" => j <= k
    /\ NumExecuting(tasks) < max_workers
    /\ tasks' = [tasks EXCEPT ![j] = "running"]
    /\ frames' = frames \cup {j}
    /\ UNCHANGED <<unreadable, t_length, batch_size, cpu_count, max_workers,
                   total_batches, pc, outputs, t_new, batch, start_frame,
                   end_frame, frame_data, processed_frames, batch_traj,
                   asm_i, segments, written, submitted, warnings>>

\* lines 39-52: cgback returns, having written a loadable output file, no
\* file, or a file md.load cannot parse (the return code is not looked
\* at); md.load of the output file, then the two removals and the return.
\* md.load raises on a missing or unparsable file and nothing after it runs
FinishTaskOut(j, out) ==
    /\ j \in DOMAIN tasks
    /\ tasks[j] = "running"
    /\ IF out = "ok"
       THEN /\ frames' = frames \ {j}
            /\ outputs' = outputs \ {j}
            /\ tasks' = [tasks EXCEPT ![j] = "done"]
            /\ UNCHANGED unreadable
       ELSE /\ outputs' = IF out = "none" THEN outputs ELSE outputs \cup {j}
            /\ unreadable' = IF out = "none" THEN unreadable
                             ELSE unreadable \cup {j}
            /\ tasks' = [tasks EXCEPT ![j] = "failed"]
            /\ UNCHANGED frames
    /\ UNCHANGED <<t_length, batch_size, cpu_count, max_workers,
                   total_batches, pc, t_new, batch, start_frame, end_frame,
                   frame_data, processed_frames, batch_traj, asm_i, segments,
                   written, submitted, warnings>>

FinishTask(j) == \E out \in Outcomes : FinishTaskOut(j, out)

\* ---- collection, lines 115-119 ----

\* the loop body with the task's exception caught and an empty result
\* (written -1) stored in its place
CollectIgnoringErrors(j) ==
    /\ pc = "collect"
    /\ j \in SeqToSet(frame_data)
    /\ j \notin DictKeys(processed_frames)
    /\ tasks[j] \in Finished
    /\ processed_frames' =
          DictSet(processed_frames, j, IF tasks[j] = "done" THEN j ELSE -1)
    /\ UNCHANGED <<unreadable, t_length, batch_size, cpu_count, max_workers,
                   total_batches, pc, frames, outputs, t_new, batch,
                   start_frame, end_frame, frame_data, tasks, batch_traj,
                   asm_i, segments, written, submitted, warnings>>

\* as_completed yields a finished future that was not yielded before;
\* future.result() returns (frame_idx, frame_result), stored under
\* result[0], or re-raises the task's exception inside the with block
Collect(j) ==
    /\ pc = "collect"
    /\ j \in SeqToSet(frame_data)
    /\ j \notin DictKeys(processed_frames)
    /\ tasks[j] \in Finished
    /\ IF tasks[j] = "done"
       THEN /\ processed_frames' = DictSet(processed_frames, j, j)
            /\ pc' = pc
       ELSE /\ pc' = "pool_exc"
            /\ UNCHANGED processed_frames
    /\ UNCHANGED <<unreadable, t_length, batch_size, cpu_count, max_workers,
                   total_batches, frames, outputs, t_new, batch, start_frame,
                   end_frame, frame_data, tasks, batch_traj, asm_i, segments,
                   written, submitted, warnings>>

\* the collection ended at the first completed future
PoolJoinedFirstCompleted(ts, d, fd) == fd = <<>> \/ Len(d) >= 1

\* the collection ended when every future that is not executing was
\* yielded, as with a timeout that gives up on the others
PoolJoinedSkipRunning(ts, d, fd) ==
    \A j \in SeqToSet(fd) : ts[j] # "running" => j \in DictKeys(d)

\* the with block of line 110 left without waiting for the futures
PoolJoinedNoWait(ts, d, fd) == TRUE

\* lines 110-119: as_completed is exhausted only when every submitted
\* future has been yielded, and the with block's exit joins the workers
PoolJoined(ts, d, fd) ==
    /\ \A j \in SeqToSet(fd) : j \in DictKeys(d)
    /\ \A j \in SeqToSet(fd) : ts[j] \in Finished

\* every batch starting from the reference trajectory alone
ExitPoolAndLoadReference ==
    /\ pc = "collect"
    /\ PoolJoined(tasks, processed_frames, frame_data)
    /\ batch_traj' = t_new
    /\ asm_i' = start_frame
    /\ pc' = "assemble"
    /\ UNCHANGED <<unreadable, t_length, batch_size, cpu_count, max_workers,
                   total_batches, frames, outputs, t_new, batch, start_frame,
                   end_frame, frame_data, tasks, processed_frames, segments,
                   written, submitted, warnings>>

\* lines 110, 121-130: the with block ends, then the starting trajectory:
\* the reference for batch 0, else the previous batch's file (md.load
\* raises when it does not exist)
ExitPoolAndLoadBase ==
    /\ pc = "collect"
    /\ PoolJoined(tasks, processed_frames, frame_data)
    /\ IF batch = 0
       THEN /\ batch_traj' = t_new
            /\ asm_i' = start_frame
            /\ pc' = "assemble"
       ELSE IF PrevBatchFile(batch, batch_size, t_length) \in DOMAIN segments
       THEN /\ batch_traj' = segments[PrevBatchFile(batch, batch_size, t_length)]
            /\ asm_i' = start_frame
            /\ pc' = "assemble"
       ELSE /\ pc' = "aborted"
            /\ UNCHANGED <<batch_traj, asm_i>>
    /\ UNCHANGED <<unreadable, t_length, batch_size, cpu_count, max_workers,
                   total_batches, frames, outputs, t_new, batch, start_frame,
                   end_frame, frame_data, tasks, processed_frames, segments,
                   written, submitted, warnings>>

\* executor.__exit__ after future.result() raised: shutdown(wait=True) lets
\* every submitted task run to its end, then the exception leaves the loop
AbortAfterShutdown ==
    /\ pc = "pool_exc"
    /\ \A j \in SeqToSet(frame_data) : tasks[j] \in Finished
    /\ pc' = "aborted"
    /\ UNCHANGED <<unreadable, t_length, batch_size, cpu_count, max_workers,
                   total_batches, frames, outputs, t_new, batch, start_frame,
                   end_frame, frame_data, tasks, processed_frames,
                   batch_traj, asm_i, segments, written, submitted, warnings>>

\* ---- assembly, lines 132-138 ----

\* one iteration written as if the results were appended in the order the
\* dict holds them (the order of completion)
AssembleFrameInDictOrder(traj, warns, d, j, s, b) ==
    IF j - s + 1 <= Len(d)
    THEN <<Append(traj, d[j - s + 1][2]), warns>>
    ELSE <<traj, Append(warns, <<j, b + 1>>)>>

\* one iteration that fills a missing frame with a copy of the last one
AssembleFramePadded(traj, warns, d, j, s, b) ==
    IF j \in DictKeys(d)
    THEN <<Append(traj, DictValue(d, j)), warns>>
    ELSE <<Append(traj, traj[Len(traj)]), Append(warns, <<j, b + 1>>)>>

\* one iteration of the loop for frame index j of batch b (s is start_frame):
\* the trajectory and the warnings after it
AssembleFrame(traj, warns, d, j, s, b) ==
    IF j \in DictKeys(d)
    THEN <<Append(traj, DictValue(d, j)), warns>>
    ELSE <<traj, Append(warns, <<j, b + 1>>)>>

AssembleStep ==
    /\ pc = "assemble"
    /\ asm_i < end_frame
    /\ LET r == AssembleFrame(batch_traj, warnings, processed_frames, asm_i,
                              start_frame, batch)
       IN  /\ batch_traj' = r[1]
           /\ warnings' = r[2]
    /\ asm_i' = asm_i + 1
    /\ UNCHANGED <<unreadable, t_length, batch_size, cpu_count, max_workers,
                   total_batches, pc, frames, outputs, t_new, batch,
                   start_frame, end_frame, frame_data, tasks,
                   processed_frames, segments, written, submitted>>

\* lines 140-146: the assembly loop is over; save_dcd under the batch's name
SaveBatch ==
    /\ pc = "assemble"
    /\ asm_i >= end_frame
    /\ LET batch_filename == BatchFilename(start_frame, end_frame)
       IN  /\ segments' = [f \in DOMAIN segments \cup {batch_filename} |->
                              IF f = batch_filename THEN batch_traj
                              ELSE segments[f]]
           /\ written' = Append(written, batch_filename)
    /\ pc' = "clear"
    /\ UNCHANGED <<unreadable, t_length, batch_size, cpu_count, max_workers,
                   total_batches, frames, outputs, t_new, batch, start_frame,
                   end_frame, frame_data, tasks, processed_frames,
                   batch_traj, asm_i, submitted, warnings>>

\* lines 148-150 and the loop's increment
ClearBatch ==
    /\ pc = "clear"
    /\ processed_frames' = <<>>
    /\ batch_traj' = <<>>
    /\ batch' = batch + 1
    /\ pc' = "batch_loop"
    /\ UNCHANGED <<unreadable, t_length, batch_size, cpu_count, max_workers,
                   total_batches, frames, outputs, t_new, start_frame,
                   end_frame, frame_data, tasks, asm_i, segments, written,
                   submitted, warnings>>

Next ==
    \/ ClearStaging
    \/ SaveReference
    \/ RunReference
    \/ LoadReference
    \/ StartBatch
    \/ Finish
    \/ \E j \in DOMAIN tasks : StartTask(j)
    \/ \E j \in DOMAIN tasks : FinishTask(j)
    \/ \E j \in DOMAIN tasks : Collect(j)
    \/ ExitPoolAndLoadBase
    \/ AbortAfterShutdown
    \/ AssembleStep
    \/ SaveBatch
    \/ ClearBatch

Spec == Init /\ [][Next]_vars

\* the run in which every cgback invocation returns with a loadable output
\* file; the main process and the pool workers are operating-system
\* processes that keep being scheduled
OkNext ==
    \/ ClearStaging
    \/ SaveReference
    \/ RunReferenceOut("ok")
    \/ LoadReference
    \/ StartBatch
    \/ Finish
    \/ \E j \in DOMAIN tasks : StartTask(j)
    \/ \E j \in DOMAIN tasks : FinishTaskOut(j, "ok")
    \/ \E j \in DOMAIN tasks : Collect(j)
    \/ ExitPoolAndLoadBase
    \/ AssembleStep
    \/ SaveBatch
    \/ ClearBatch

OkSpec == Init /\ [][OkNext]_vars /\ WF_vars(OkNext)

TypeOK ==
    /\ pc \in {"start", "ref_save", "ref_run", "ref_load", "batch_loop",
               "collect", "pool_exc", "assemble", "clear", "done", "aborted"}
    /\ \A j \in DOMAIN tasks : tasks[j] \in Live \cup Finished

\* ---- the assembly loop on its own ----

\* lines 134-138 as a function of the starting trajectory and the dict:
\* iterations j, j+1, ..., e-1
RECURSIVE AssembleLoop(_, _, _, _, _, _, _)
AssembleLoop(traj, warns, d, j, e, s, b) ==
    IF j >= e THEN <<traj, warns>>
    ELSE LET r == AssembleFrame(traj, warns, d, j, s, b)
         IN  AssembleLoop(r[1], r[2], d, j + 1, e, s, b)

\* the dict after every task of frame_data fd was collected in index order
FullDict(fd) == [k \in 1..Len(fd) |-> <<fd[k], fd[k]>>]

\* the trajectory batch k saves when every task of batches 0..k succeeded
RECURSIVE SegmentOf(_, _, _)
SegmentOf(k, n, b) ==
    LET s == StartFrame(k, b)
        e == EndFrame(k, b, n)
        base == IF k = 0 THEN <<0>> ELSE SegmentOf(k - 1, n, b)
    IN  AssembleLoop(base, <<>>, FullDict(Range(s, e)), s, e, s, k)[1]

RECURSIVE SubmittedUpTo(_, _, _)
SubmittedUpTo(k, n, b) ==
    IF k < 0 THEN <<>>
    ELSE SubmittedUpTo(k - 1, n, b) \o Range(StartFrame(k, b), EndFrame(k, b, n))

\* every dict over a subset of the indices S, in every insertion order
DictsOver(S) ==
    {[k \in 1..Len(q) |-> <<q[k], q[k]>>] :
        q \in {q \in UNION {[1..m -> S] : m \in 0..Cardinality(S)} :
                  \A x, y \in 1..Len(q) : x # y => q[x] # q[y]}}

\* the main process about to assemble batch k of a run whose earlier
\* batches succeeded, with any results dict over the batch's indices
AsmInit ==
    /\ t_length \in 1..MaxFrames
    /\ batch_size \in 1..MaxBatchSize
    /\ cpu_count \in 1..MaxCpu
    /\ max_workers = MaxWorkers(cpu_count)
    /\ total_batches = TotalBatches(t_length, batch_size)
    /\ pc = "assemble"
    /\ frames = {0}
    /\ outputs = {0}
    /\ unreadable = {}
    /\ t_new = <<0>>
    /\ batch \in 0..(total_batches - 1)
    /\ start_frame = StartFrame(batch, batch_size)
    /\ end_frame = EndFrame(batch, batch_size, t_length)
    /\ frame_data = Range(start_frame, end_frame)
    /\ submitted = SubmittedUpTo(batch, t_length, batch_size)
    /\ tasks = [j \in SeqToSet(submitted) |-> "done"]
    /\ processed_frames \in DictsOver(SeqToSet(frame_data))
    /\ batch_traj = IF batch = 0 THEN t_new
                    ELSE SegmentOf(batch - 1, t_length, batch_size)
    /\ asm_i = start_frame
    /\ written = [k \in 1..batch |->
                     BatchFilename(StartFrame(k - 1, batch_size),
                                   EndFrame(k - 1, batch_size, t_length))]
    /\ segments = [f \in SeqToSet(written) |->
                      SegmentOf(CHOOSE k \in 0..(batch - 1) : written[k + 1] = f,
                                t_length, batch_size)]
    /\ warnings = <<>>

AsmNext ==
    \/ AssembleStep
    \/ SaveBatch
    \/ ClearBatch

AsmSpec == AsmInit /\ [][AsmNext]_vars

\* ---- the sequential driver, scripts/sequential.py ----

\* lines 37-44: iterations i, i+1, ..., n-1 of the rebuild loop, each
\* appending the structure rebuilt from frame i
RECURSIVE SequentialLoop(_, _, _)
SequentialLoop(traj, i, n) ==
    IF i >= n THEN traj ELSE SequentialLoop(Append(traj, i), i + 1, n)

\* lines 33-49: the trajectory saved for a coarse trajectory of n frames
SequentialRebuild(n) == SequentialLoop(<<0>>, 1, n)

\* ---- properties ----

CeilDiv(a, b) == (a + b - 1) \div b

Last(q) == q[Len(q)]

StrictlyAscending(q) == \A x, y \in 1..Len(q) : x < y => q[x] < q[y]

\* the elements of a finite set of integers, smallest first
RECURSIVE AscendingSeq(_)
AscendingSeq(S) ==
    IF S = {} THEN <<>>
    ELSE LET m == CHOOSE x \in S : \A y \in S : x <= y
         IN  <<m>> \o AscendingSeq(S \ {m})

\* the starting trajectory of the current batch
BaseTraj == IF batch = 0 THEN t_new ELSE segments[written[batch]]

\* the frame indices of the current batch without a collected result
Missing == SeqToSet(frame_data) \ DictKeys(processed_frames)

\* C1: when the run is done, every frame index of 1..N-1 was submitted as a
\* task and is a frame of some saved segment.
C1_AllFramesCovered ==
    pc = "done" =>
        \A j \in 1..(t_length - 1) :
            /\ j \in SeqToSet(submitted)
            /\ \E f \in DOMAIN segments : j \in SeqToSet(segments[f])

\* C2: when the run is done, the number of batches run, and the number of
\* segment files written, is ceil((N-1)/B).
C2_BatchCount ==
    pc = "done" =>
        /\ batch = CeilDiv(t_length - 1, batch_size)
        /\ Cardinality(DOMAIN segments) = CeilDiv(t_length - 1, batch_size)

\* C3: during and after assembly the trajectory is the starting trajectory
\* followed by the collected frames of the indices visited so far in
\* ascending order, whatever order the dict received them in, and the
\* whole trajectory is strictly ascending.
C3_AscendingAssembly ==
    pc \in {"assemble", "clear"} =>
        /\ batch_traj = BaseTraj \o
              AscendingSeq({j \in DictKeys(processed_frames) :
                               start_frame <= j /\ j < asm_i})
        /\ StrictlyAscending(batch_traj)

\* C3 witness: a batch assembled after its second task completed first
C3_Witness ==
    /\ pc = "clear"
    /\ Len(processed_frames) >= 3
    /\ processed_frames[1][1] > processed_frames[2][1]
    /\ Len(batch_traj) = Len(BaseTraj) + Len(processed_frames)

\* C4: the segment saved for a batch whose tasks all succeeded has as many
\* frames as the batch's range start_frame..end_frame has indices.
C4_SegmentCount ==
    (/\ pc = "clear"
     /\ frame_data # <<>>
     /\ \A j \in SeqToSet(frame_data) : tasks[j] = "done") =>
        Len(segments[Last(written)]) = end_frame - start_frame + 1

\* C5: once a task has ended, returned or raised, neither staging
\* directory holds a file of its frame index.
C5_StagingRemoved ==
    \A j \in DOMAIN tasks :
        tasks[j] \in Finished => (j \notin frames /\ j \notin outputs)

\* C6: while batch k > 0 is the current batch, the name it computes for the
\* previous segment is the name batch k-1 passed to save_dcd, and that file
\* is on disk.
C6_PrevFileIsWritten ==
    (batch > 0 /\ pc \in {"collect", "pool_exc", "assemble", "clear"}) =>
        /\ Len(written) >= batch
        /\ PrevBatchFile(batch, batch_size, t_length) = written[batch]
        /\ PrevBatchFile(batch, batch_size, t_length) \in DOMAIN segments

\* C6 witness: batch k > 0 has just loaded the previous segment
C6_Witness ==
    /\ pc = "assemble"
    /\ batch >= 2
    /\ asm_i = start_frame
    /\ frame_data # <<>>
    /\ batch_traj = segments[written[batch]]

\* C7: the range in the name of the file a batch saved is the first and the
\* last frame index the batch submitted.
C7_NameIsDispatchedRange ==
    (pc = "clear" /\ frame_data # <<>>) =>
        Last(written) = BatchFilename(frame_data[1], Last(frame_data))

\* C8: assembling with the result of exactly one frame of the batch missing
\* from the dict gives a trajectory one frame shorter than with the full
\* dict, prints one warning, for that frame, and the batch is saved.
C8_OneWithheld ==
    (pc = "clear" /\ Cardinality(Missing) = 1) =>
        LET j == CHOOSE x \in Missing : TRUE
            full == AssembleLoop(BaseTraj, <<>>, FullDict(frame_data),
                                 start_frame, end_frame, start_frame, batch)
        IN  /\ Len(batch_traj) = Len(full[1]) - 1
            /\ Len(batch_traj) = Len(BaseTraj) + Len(frame_data) - 1
            /\ j \notin SeqToSet(batch_traj)
            /\ warnings = << <<j, batch + 1>> >>
            /\ Last(written) = BatchFilename(start_frame, end_frame)
            /\ segments[Last(written)] = batch_traj

\* C8 witness: a later batch saved with one of several results withheld
C8_Witness ==
    /\ pc = "clear"
    /\ batch >= 1
    /\ Len(frame_data) >= 2
    /\ Missing = {frame_data[1]}
    /\ Len(warnings) = 1
    /\ Len(batch_traj) > Len(BaseTraj)

\* C9: a task is live only while the main process is inside the with block
\* of the batch the task belongs to, with the segments of all earlier
\* batches saved; assembly and saving see every task of the batch ended.
C9_OneBatchInFlight ==
    /\ \A j \in DOMAIN tasks :
          tasks[j] \in Live =>
              /\ pc \in {"collect", "pool_exc"}
              /\ j \in SeqToSet(frame_data)
              /\ Len(written) = batch
              /\ \A k \in 1..batch : written[k] \in DOMAIN segments
    /\ pc \in {"assemble", "clear"} =>
          \A j \in SeqToSet(frame_data) : tasks[j] \in Finished

\* C9 witness: tasks of a later batch run after the earlier segment is saved
C9_Witness ==
    /\ pc = "collect"
    /\ batch >= 1
    /\ Len(written) = batch
    /\ \E j, k \in SeqToSet(frame_data) : tasks[j] = "running" /\ tasks[k] = "done"

\* C10: the number of tasks executing at once never exceeds the number of
\* cpus nor the cap of 4.
C10_BoundedConcurrency ==
    /\ NumExecuting(tasks) <= cpu_count
    /\ NumExecuting(tasks) <= WorkerCap

\* C10 witness: four tasks execute while a fifth waits on a machine with
\* more than four cpus
C10_Witness ==
    /\ cpu_count > WorkerCap
    /\ NumExecuting(tasks) = WorkerCap
    /\ \E j \in DOMAIN tasks : tasks[j] = "pending"

\* C11: once a task of the current batch k has failed, the main process is
\* collecting, unwinding or aborted; exactly the files of batches 0..k-1
\* are on disk, with the contents they were saved with, and only the
\* indices of batches 0..k were ever submitted.
C11_FailureAborts ==
    (\E j \in DOMAIN tasks : tasks[j] = "failed") =>
        /\ pc \in {"collect", "pool_exc", "aborted"}
        /\ Len(written) = batch
        /\ DOMAIN segments = SeqToSet(written)
        /\ \A k \in 1..batch :
              segments[written[k]] = SegmentOf(k - 1, t_length, batch_size)
        /\ submitted = SubmittedUpTo(batch, t_length, batch_size)
        /\ \A j \in DOMAIN tasks : tasks[j] = "failed" => j >= start_frame

\* C11 witness: the run aborted in a later batch with earlier files on disk
C11_Witness ==
    /\ pc = "aborted"
    /\ batch >= 1
    /\ \E j \in SeqToSet(frame_data) : tasks[j] = "failed"
    /\ \E j \in SeqToSet(frame_data) : tasks[j] = "done"
    /\ Len(written) = batch

\* C12: no frame index is submitted twice in a run, and two distinct live
\* tasks never name the same input or output staging file.
C12_NoStagingCollision ==
    /\ \A x, y \in 1..Len(submitted) :
          x # y => submitted[x] # submitted[y]
    /\ \A i, j \in DOMAIN tasks :
          (i # j /\ tasks[i] \in Live /\ tasks[j] \in Live) =>
              /\ FrameFilename(i) # FrameFilename(j)
              /\ OutputFilename(i) # OutputFilename(j)

\* C12 witness: two tasks of a later batch run at the same time
C12_Witness ==
    /\ batch >= 1
    /\ \E i, j \in SeqToSet(frame_data) :
          i # j /\ tasks[i] = "running" /\ tasks[j] = "running"
    /\ Len(submitted) >= 4

\* C13: no step removes a segment file this run has saved or changes its
\* contents.
C13_SegmentsKept ==
    [][\A f \in SeqToSet(written) :
          f \in DOMAIN segments' /\ segments'[f] = segments[f]]_vars

\* C13 witness: the first batch's file is as saved after two later saves
C13_Witness ==
    /\ pc = "done"
    /\ Len(written) >= 3
    /\ Cardinality(DOMAIN segments) = Len(written)
    /\ segments[written[1]] = SegmentOf(0, t_length, batch_size)
    /\ segments[written[1]] # segments[written[2]]

\* the order of the stages of a run without failures
StageEdges ==
    {<<"start", "ref_save">>, <<"ref_save", "ref_run">>,
     <<"ref_run", "ref_load">>, <<"ref_load", "batch_loop">>,
     <<"batch_loop", "collect">>, <<"collect", "assemble">>,
     <<"assemble", "clear">>, <<"clear", "batch_loop">>,
     <<"batch_loop", "done">>}

\* C14: when every cgback invocation succeeds, the main process moves only
\* along start, reference frame, batch loop, done; the batch number grows
\* by one, and only when a batch has been saved; batch k starts with k
\* files saved; and the run eventually is done with one file saved for
\* every batch.
C14_RunCompletes ==
    /\ [][/\ pc' # pc => <<pc, pc'>> \in StageEdges
          /\ batch' # batch =>
                (batch' = batch + 1 /\ pc = "clear" /\ Len(written) = batch')
          /\ (pc' = "collect" /\ pc # "collect") => Len(written) = batch]_vars
    /\ <>(/\ pc = "done"
          /\ batch = total_batches
          /\ Len(written) = total_batches
          /\ \A k \in 0..(total_batches - 1) :
                BatchFilename(StartFrame(k, batch_size),
                              EndFrame(k, batch_size, t_length))
                    \in DOMAIN segments)

\* C14 witness: a run of several batches is done with all its files saved
C14_Witness ==
    /\ pc = "done"
    /\ total_batches >= 3
    /\ batch = total_batches
    /\ Cardinality(DOMAIN segments) = total_batches
    /\ Len(submitted) >= 4

\* the distinct structures the main process holds: the results dict and
\* the trajectory being assembled
InMemory == DictKeys(processed_frames) \cup SeqToSet(batch_traj)

\* C15: the main process never holds more than batch_size + 1 structures,
\* and the results dict is empty when a batch's tasks have just been
\* submitted.
C15_MemoryBound ==
    /\ Cardinality(InMemory) <= batch_size + 1
    /\ (pc = "collect" /\ \A j \in SeqToSet(frame_data) : tasks[j] = "pending")
          => processed_frames = <<>>

\* C16: when assembly runs, the results dict holds exactly the indices
\* submitted for the batch, each with its own structure, and no
\* missing-frame warning is ever printed.
C16_NoGaps ==
    /\ pc \in {"assemble", "clear"} =>
          /\ DictKeys(processed_frames) = SeqToSet(frame_data)
          /\ Len(processed_frames) = Len(frame_data)
          /\ \A j \in SeqToSet(frame_data) : DictValue(processed_frames, j) = j
    /\ warnings = <<>>

\* C16 witness: assembly of a later batch begins with several results
C16_Witness ==
    /\ pc = "assemble"
    /\ batch >= 1
    /\ asm_i = start_frame
    /\ Len(frame_data) >= 2
    /\ processed_frames[1][1] # frame_data[1]

C18_ReferenceKept ==
    pc \in {"batch_loop", "collect", "pool_exc", "assemble", "clear", "done"}
        => /\ 0 \in outputs
           /\ 0 \notin unreadable
           /\ 0 \notin DOMAIN tasks
           /\ 0 \notin SeqToSet(submitted)

\* C18 witness: a batch k > 0 has loaded the previous file after tasks of
\* two batches removed their own staging files
C18_Witness ==
    /\ pc = "assemble"
    /\ batch >= 1
    /\ frame_data # <<>>
    /\ outputs = {0}
    /\ \A j \in SeqToSet(submitted) : tasks[j] = "done"

\* C19: when the run is done, the last file saved holds the trajectory the
\* sequential driver saves for the same input: 0, 1, ..., N-1.
C19_SameAsSequential ==
    pc = "done" =>
        /\ segments[Last(written)] = SequentialRebuild(t_length)
        /\ segments[Last(written)] = [k \in 1..t_length |-> k - 1]

\* C20: a step that leaves a task of the current batch executing does not
\* save a file, submit a task or move to another batch, and while a task
\* executes the batch's file is not on disk.
C20_HungTaskBlocks ==
    [][(\E j \in SeqToSet(frame_data) :
            tasks[j] = "running" /\ tasks'[j] = "running") =>
          /\ batch' = batch
          /\ written' = written
          /\ segments' = segments
          /\ submitted' = submitted
          /\ pc' \in {"collect", "pool_exc"}
          /\ BatchFilename(start_frame, end_frame) \notin DOMAIN segments']_vars

\* C20 witness: one task still executes after every other task of a later
\* batch was collected
C20_Witness ==
    /\ pc = "collect"
    /\ batch >= 1
    /\ Len(frame_data) >= 2
    /\ \E j \in SeqToSet(frame_data) :
          /\ tasks[j] = "running"
          /\ DictKeys(processed_frames) = SeqToSet(frame_data) \ {j}

====
